---- MODULE Spec2Model ----
(***************************************************************************)
(* Model of NotionJournalManager (src/app.py): the rich-text rewrite       *)
(* _convert_rich_text, the paginated read _fetch_blocks, the payload       *)
(* construction _prepare_blocks_for_copy, the batched write _append_blocks *)
(* and the recursive copy_blocks, run against a content store that may     *)
(* fail any call and may answer an append with fewer created blocks than   *)
(* were submitted; and duplicate_daily_journal, which queries yesterday's  *)
(* page, retrieves it, creates today's page and copies the blocks.         *)
(*                                                                         *)
(* Spec runs copy_blocks, SpecRich runs _convert_rich_text on its own,     *)
(* SpecJournal runs duplicate_daily_journal.                               *)
(*                                                                         *)
(* Python dicts are functions with a string domain; d.get(k, default) is   *)
(* Get(d, k, default); a raised exception is a result whose field raised   *)
(* names it.                                                               *)
(***************************************************************************)
EXTENDS Integers, Sequences, FiniteSets, TLC

VARIABLES
    \* ---- _convert_rich_text, called on its own
    rich_text,    \* the argument of the first call
    converted,    \* result of _convert_rich_text(rich_text)
    twice,        \* result of _convert_rich_text(converted.value)
    rt_pc,        \* "start", "once", "twice" ("idle" while copy_blocks is exercised)
    \* ---- copy_blocks against the store
    children,     \* the store's source tree: block id -> ordered child ids
    batch_arg,    \* the batch_size argument of the top call: <<b>>, or <<>> when omitted
    target,       \* the store's target side: id -> [type, content, children]
    next_id,      \* the id the store gives the next created block
    stack,        \* call stack of copy_blocks invocations, innermost first
    ret,          \* source id -> "none" | "true" | "false": what copy_blocks(source, ..) returned
    calls,        \* every store call issued so far, in order
    invoked,      \* every copy_blocks invocation so far, in order, with the source
                  \* id of the invocation that made it (caller; <<>>: from outside)
                  \* and the number of store calls issued before it (at)
    \* ---- duplicate_daily_journal
    dj            \* its frame: pc, source_page, page_content, new_properties,
                  \* new_page (each <<>> while unset or None) and result

vars == <<rich_text, converted, twice, rt_pc,
          children, batch_arg, target, next_id, stack, ret, calls, invoked, dj>>

rtVars   == <<rich_text, converted, twice, rt_pc>>
copyVars == <<children, batch_arg, target, next_id, stack, ret, calls, invoked>>

\* ------------------------------------------------------------------ bounds
MaxSpans == 2       \* longest rich_text sequence drawn as an input
MaxNodes == 4       \* most blocks in a source tree (the page itself excluded)
MaxBatch == 3       \* largest explicit batch_size argument
MaxNegBatch == 1    \* the most negative batch_size argument is -MaxNegBatch

\* ------------------------------------------------------- python primitives
None == "None"
EmptyDict == {}     \* {} as a set of <<key, value>> pairs (annotations)

Get(d, k, default) == IF k \in DOMAIN d THEN d[k] ELSE default

Returned(v) == [raised |-> "", value |-> v]
Raised(e)   == [raised |-> e, value |-> <<>>]

Min(a, b) == IF a < b THEN a ELSE b

\* ----------------------------------------------------- _convert_rich_text
\* text.get('mention', {}).get('type')
MentionType(text) ==
    IF "mention" \in DOMAIN text THEN Get(text["mention"], "type", None) ELSE None

\* variant: the sub-variant of the mention is not looked at
IsLinkMention_AnyMention(text) ==
    text["type"] = "mention"

\* the condition of the if at app.py:158-159
IsLinkMention(text) ==
    text["type"] = "mention" /\ MentionType(text) = "link_mention"

\* variant: content and link target taken from each other's field
ConvertSpan_SwappedFields(text) ==
    IF "plain_text" \notin DOMAIN text \/ "href" \notin DOMAIN text
    THEN Raised("KeyError")
    ELSE Returned([type |-> "text",
                   text |-> [content |-> text["href"],
                             link |-> [url |-> text["plain_text"]]],
                   annotations |-> Get(text, "annotations", EmptyDict),
                   plain_text |-> text["plain_text"]])

\* the dict literal appended at app.py:160-168; text['plain_text'] and
\* text['href'] are subscripts, so a missing key raises KeyError
ConvertSpan(text) ==
    IF "plain_text" \notin DOMAIN text \/ "href" \notin DOMAIN text
    THEN Raised("KeyError")
    ELSE Returned([type |-> "text",
                   text |-> [content |-> text["plain_text"],
                             link |-> [url |-> text["href"]]],
                   annotations |-> Get(text, "annotations", EmptyDict),
                   plain_text |-> text["plain_text"]])

\* variant: a span that is passed through is put at the front of the list
ConvertStep_Prepend(acc, text) ==
    IF IsLinkMention(text)
    THEN LET c == ConvertSpan(text)
         IN  IF c.raised # "" THEN Raised(c.raised)
             ELSE Returned(Append(acc, c.value))
    ELSE Returned(<<text>> \o acc)

\* the loop body for one span: the list `converted` after the iteration
ConvertStep(acc, text) ==
    IF IsLinkMention(text)
    THEN LET c == ConvertSpan(text)
         IN  IF c.raised # "" THEN Raised(c.raised)
             ELSE Returned(Append(acc, c.value))
    ELSE Returned(Append(acc, text))

RECURSIVE ConvertFrom(_, _, _)
ConvertFrom(rt, i, acc) ==
    IF i > Len(rt) THEN Returned(acc)
    ELSE LET r == ConvertStep(acc, rt[i])
         IN  IF r.raised # "" THEN r ELSE ConvertFrom(rt, i + 1, r.value)

convert_rich_text(rt) == ConvertFrom(rt, 1, <<>>)

\* ---------------------------------------------------- rich-text span inputs
Bold == {<<"bold", TRUE>>}        \* an annotations dict

TextSpan ==
    [type |-> "text", text |-> [content |-> "a"],
     annotations |-> EmptyDict, plain_text |-> "a", href |-> None]
LinkedText ==
    [type |-> "text", text |-> [content |-> "X", link |-> [url |-> "https://x"]],
     annotations |-> Bold, plain_text |-> "X", href |-> "https://x"]
DateMention ==
    [type |-> "mention", mention |-> [type |-> "date", date |-> [start |-> "2025-02-24"]],
     annotations |-> EmptyDict, plain_text |-> "2025-02-24", href |-> None]
BareMention ==
    [type |-> "mention", plain_text |-> "m", href |-> None]
Equation ==
    [type |-> "equation", equation |-> [expression |-> "e"],
     annotations |-> EmptyDict, plain_text |-> "e", href |-> None]
\* a variant the rewrite does not know, carrying a link_mention payload
Widget ==
    [type |-> "widget", mention |-> [type |-> "link_mention", href |-> "https://w"],
     plain_text |-> "w", href |-> "https://w"]
\* link mentions: as the store returns them (href at the top level), as
\* block text written with the href only inside the mention, and lacking
\* plain_text or annotations
LinkMention ==
    [type |-> "mention",
     mention |-> [type |-> "link_mention", link_mention |-> [href |-> "https://x"]],
     annotations |-> Bold, plain_text |-> "X", href |-> "https://x"]
LinkMentionBoth ==
    [type |-> "mention", mention |-> [type |-> "link_mention", href |-> "https://y"],
     annotations |-> EmptyDict, plain_text |-> "Y", href |-> "https://y"]
LinkMentionInner ==
    [type |-> "mention", mention |-> [type |-> "link_mention", href |-> "https://x"],
     annotations |-> Bold, plain_text |-> "X"]
LinkMentionNoPlain ==
    [type |-> "mention", mention |-> [type |-> "link_mention"],
     annotations |-> Bold, href |-> "https://x"]
LinkMentionNoAnnotations ==
    [type |-> "mention", mention |-> [type |-> "link_mention"],
     plain_text |-> "Z", href |-> "https://z"]

Spans == {TextSpan, LinkedText, DateMention, BareMention, Equation, Widget,
          LinkMention, LinkMentionBoth, LinkMentionInner, LinkMentionNoPlain,
          LinkMentionNoAnnotations}

SeqsUpTo(S, n) == UNION {[1..k -> S] : k \in 0..n}

Unset == Raised("unset")

\* ------------------------------------------------------------- the store
DEFAULT_BATCH_SIZE == 100
NoCursor == 0                \* start_cursor=None; a cursor c >= 1 stands for "c items already returned"
SourcePageId == 0
NewPageId == MaxNodes + 1    \* created blocks get NewPageId + 1, NewPageId + 2, ...

BatchArgs == {<<>>} \cup {<<b>> : b \in 1..MaxBatch}     \* <<>>: batch_size omitted

RECURSIVE SortedSeq(_)
SortedSeq(S) ==
    IF S = {} THEN <<>>
    ELSE LET m == CHOOSE x \in S : \A y \in S : x <= y
         IN  <<m>> \o SortedSeq(S \ {m})

\* every tree of at most MaxNodes blocks under the page: block k hangs under
\* a block (or the page) with a smaller id, siblings in id order
ParentMaps(n) == {p \in [1..n -> 0..n] : \A k \in 1..n : p[k] < k}
TreeOf(n, p)  == [v \in 0..n |-> SortedSeq({k \in 1..n : p[k] = v})]
Trees == UNION {{TreeOf(n, p) : p \in ParentMaps(n)} : n \in 0..MaxNodes}

LabelSpan(id) ==
    [type |-> "text", text |-> [content |-> ToString(id)],
     annotations |-> EmptyDict, plain_text |-> ToString(id), href |-> None]

BlockType(id) ==
    CASE id % 3 = 1 -> "paragraph"
      [] id % 3 = 2 -> "to_do"
      [] OTHER      -> "equation"

BlockContent(id) ==
    CASE id % 3 = 1 -> [rich_text |-> <<LabelSpan(id), LinkMention>>, color |-> "default"]
      [] id % 3 = 2 -> [rich_text |-> <<LinkMentionBoth, LabelSpan(id)>>, checked |-> TRUE]
      [] OTHER      -> [expression |-> ToString(id)]

\* a block descriptor as the list call returns it
SourceBlock(id) ==
    [id |-> id, type |-> BlockType(id), has_children |-> children[id] # <<>>]
        @@ (BlockType(id) :> BlockContent(id))

\* the lengths the store may give the page that starts after `pos` items
PageLens(total, pos, page_size) ==
    IF total - pos <= 0 THEN {0}
    ELSE IF page_size < 1 THEN 1..(total - pos)
    ELSE 1..Min(total - pos, page_size)

\* the response of blocks.children.list(block_id, start_cursor, page_size)
\* when the store answers with a page of k items
ListResponse(block_id, start_cursor, k) ==
    LET kids == children[block_id]
        last == start_cursor + k
    IN  [results     |-> [x \in 1..k |-> SourceBlock(kids[start_cursor + x])],
         has_more    |-> last < Len(kids),
         next_cursor |-> IF last < Len(kids) THEN last ELSE NoCursor]

\* the blocks the store creates for an append of `batch`, in submission order
CreatedBlocks(batch) ==
    [x \in 1..Len(batch) |->
        [id |-> next_id + x, type |-> batch[x]["type"], has_children |-> FALSE]
            @@ (batch[x]["type"] :> batch[x][batch[x]["type"]])]

\* the store after blocks.children.append(block_id, children=batch)
StoreAppend(block_id, batch) ==
    LET made == CreatedBlocks(batch)
        new  == [id \in {made[x]["id"] : x \in 1..Len(made)} |->
                    LET b == CHOOSE c \in {made[x] : x \in 1..Len(made)} : c["id"] = id
                    IN  [type |-> b["type"], content |-> b[b["type"]], children |-> <<>>]]
    IN  [target EXCEPT ![block_id].children =
             @ \o [x \in 1..Len(made) |-> made[x]["id"]]] @@ new

\* a store call as logged: who issued it (by: the source id of the copy_blocks
\* invocation), its arguments, whether it returned, its response, and for an
\* append the ids of the blocks the store created (made)
Call(op, by, block_id, cursor, page_size, ok, sent, made, response) ==
    [op |-> op, by |-> by, block_id |-> block_id, start_cursor |-> cursor,
     page_size |-> page_size, ok |-> ok, sent |-> sent, made |-> made,
     results |-> response.results, has_more |-> response.has_more,
     next_cursor |-> response.next_cursor]

NoResponse == [results |-> <<>>, has_more |-> FALSE, next_cursor |-> NoCursor]

\* ------------------------------------------------------------ _fetch_blocks
\* variant: the page replaces the buffer instead of extending it
FetchStep_Overwrite(f, response) ==
    [f EXCEPT !.blocks_buffer = response.results,
              !.has_more      = response.has_more,
              !.start_cursor  = response.next_cursor]

\* variant: the cursor is not advanced
FetchStep_KeepCursor(f, response) ==
    [f EXCEPT !.blocks_buffer = @ \o response.results,
              !.has_more      = response.has_more]

\* the loop body after the list call returned: app.py:196-198
FetchStep(f, response) ==
    [f EXCEPT !.blocks_buffer = @ \o response.results,
              !.has_more      = response.has_more,
              !.start_cursor  = response.next_cursor]

\* ------------------------------------------------- _prepare_blocks_for_copy
\* variant: block_content = block[block_type], the source's own dict
DictCopy_Alias(d) == [ref |-> "same", dict |-> d]

\* d.copy(): a new dict with the items of d
DictCopy(d) == [ref |-> "new", dict |-> d]

\* variant: the payload is the fetched block itself with the new content
PrepareBlock_WholeBlock(block) ==
    LET block_type    == block["type"]
        block_content == block[block_type]
    IN  IF "rich_text" \in DOMAIN block_content
        THEN LET c == convert_rich_text(block_content["rich_text"])
             IN  IF c.raised # "" THEN Raised(c.raised)
                 ELSE Returned([block EXCEPT ![block_type]["rich_text"] = c.value])
        ELSE Returned(block)

\* one iteration of the loop at app.py:212-224
PrepareBlock(block) ==
    LET block_type    == block["type"]
        block_content == DictCopy(block[block_type]).dict
    IN  IF "rich_text" \in DOMAIN block_content
        THEN LET c == convert_rich_text(block_content["rich_text"])
             IN  IF c.raised # "" THEN Raised(c.raised)
                 ELSE Returned([object |-> "block", type |-> block_type]
                          @@ (block_type :> [block_content EXCEPT !["rich_text"] = c.value]))
        ELSE Returned([object |-> "block", type |-> block_type]
                          @@ (block_type :> block_content))

RECURSIVE PrepareFrom(_, _, _)
PrepareFrom(blocks, n, new_blocks) ==
    IF n > Len(blocks) THEN Returned(new_blocks)
    ELSE LET r == PrepareBlock(blocks[n])
         IN  IF r.raised # "" THEN r
             ELSE PrepareFrom(blocks, n + 1, Append(new_blocks, r.value))

prepare_blocks_for_copy(blocks) == PrepareFrom(blocks, 1, <<>>)

\* ----------------------------------------------------------- _append_blocks
\* variant: the slice ends one element early
Batch_OneShort(blocks, i, batch_size) ==
    SubSeq(blocks, i + 1, Min(i + batch_size - 1, Len(blocks)))

\* batch = blocks[i:i + batch_size]
Batch(blocks, i, batch_size) ==
    SubSeq(blocks, i + 1, Min(i + batch_size, Len(blocks)))

\* variant: the response replaces created_blocks instead of extending it
AppendStep_Overwrite(f, response) ==
    [f EXCEPT !.created_blocks = response.results,
              !.i              = @ + f.batch_size]

\* the loop body after the append call returned: app.py:249 and the next i
AppendStep(f, response) ==
    [f EXCEPT !.created_blocks = @ \o response.results,
              !.i              = @ + f.batch_size]

\* ---------------------------------------------------------------- copy_blocks
NewFrame(source_id, target_id, batch_size) ==
    [source_id |-> source_id, target_id |-> target_id, batch_size |-> batch_size,
     pc |-> "fetch", blocks_buffer |-> <<>>, has_more |-> TRUE,
     start_cursor |-> NoCursor, new_blocks |-> <<>>, created_blocks |-> <<>>,
     i |-> 0, j |-> 1]

Top == Head(stack)

\* zip(blocks_buffer, created_blocks) stops at the shorter sequence
ZipLen(f) == Min(Len(f.blocks_buffer), Len(f.created_blocks))

\* variant: the pairs are visited last to first
ZipIndex_Reversed(f, n) == ZipLen(f) + 1 - n

\* the position in both sequences of the n-th pair zip yields
ZipIndex(f, n) == n

\* variant: has_children is not looked at
ToRecurse_All(f) == f.j..ZipLen(f)

\* the iterations of the zip loop, from the current one on, whose source
\* block has children: app.py:274-275
ToRecurse(f) ==
    {n \in f.j..ZipLen(f) :
        Get(f.blocks_buffer[ZipIndex(f, n)], "has_children", FALSE)}

\* variant: the zip loop runs inside the batch loop, over the blocks created
\* so far
ZipLoopEntered_PerBatch(f) == f.pc \in {"append", "recurse"}

\* the zip loop at app.py:274 is reached when _append_blocks has returned
ZipLoopEntered(f) == f.pc = "recurse"

\* the source block after the loop body at app.py:212-224 has run on it:
\* the assignment at app.py:218 lands in the dict block_content refers to,
\* which is the source's own content only when it was not copied
SourceAfterPrepare(block) ==
    LET block_type    == block["type"]
        block_content == DictCopy(block[block_type])
    IN  IF /\ block_content.ref = "same"
           /\ "rich_text" \in DOMAIN block_content.dict
           /\ convert_rich_text(block_content.dict["rich_text"]).raised = ""
        THEN [block EXCEPT ![block_type]["rich_text"] =
                               convert_rich_text(block_content.dict["rich_text"]).value]
        ELSE block

\* range(0, n, batch_size) at app.py:243: ValueError for a step of zero, no
\* iteration for a negative step or for n = 0, else the loop is entered
RangeEntry(n, batch_size) ==
    IF batch_size = 0 THEN "raised"
    ELSE IF batch_size > 0 /\ n > 0 THEN "append"
    ELSE "recurse"

\* variant: the append loop is entered even when there is nothing to append
AfterFetch_AlwaysAppend(f) ==
    LET p == prepare_blocks_for_copy(f.blocks_buffer)
    IN  IF p.raised # "" THEN [f EXCEPT !.pc = "raised"]
        ELSE [f EXCEPT !.new_blocks = p.value, !.pc = "append",
                       !.blocks_buffer = [n \in 1..Len(f.blocks_buffer) |->
                                             SourceAfterPrepare(f.blocks_buffer[n])]]

\* the frame when _fetch_blocks has returned: new_blocks is prepared and the
\* for loop of _append_blocks is entered, or skipped when range() is empty
AfterFetch(f) ==
    LET p == prepare_blocks_for_copy(f.blocks_buffer)
    IN  IF p.raised # "" THEN [f EXCEPT !.pc = "raised"]
        ELSE [f EXCEPT !.new_blocks = p.value,
                       !.pc = RangeEntry(Len(p.value), f.batch_size),
                       !.blocks_buffer = [n \in 1..Len(f.blocks_buffer) |->
                                             SourceAfterPrepare(f.blocks_buffer[n])]]

\* variant: the handler logs the exception and the invocation never returns
ReturnFalse_Hangs ==
    /\ stack' = <<[Top EXCEPT !.pc = "failed"]>> \o Tail(stack)
    /\ UNCHANGED ret

\* the except clauses at app.py:284-289: the invocation returns False
ReturnFalse ==
    /\ stack' = Tail(stack)
    /\ ret' = [ret EXCEPT ![Top.source_id] = "false"]

\* duplicate_daily_journal is not running
IdleJournal ==
    [pc |-> "idle", source_page |-> <<>>, page_content |-> <<>>,
     new_properties |-> <<>>, new_page |-> <<>>, result |-> "none"]

Init ==
    /\ rich_text = <<>>
    /\ converted = Unset
    /\ twice = Unset
    /\ rt_pc = "idle"
    /\ children \in Trees
    /\ batch_arg = <<>>
    /\ target = (NewPageId :> [type |-> "page", content |-> <<>>, children |-> <<>>])
    /\ next_id = NewPageId
    /\ stack = <<>>
    /\ ret = [v \in DOMAIN children |-> "none"]
    /\ calls = <<>>
    /\ invoked = <<>>
    /\ dj = IdleJournal

\* copy_blocks(source_id, target_id[, batch_size]) called from outside
CopyBlocksCall ==
    /\ stack = <<>>
    /\ ret[SourcePageId] = "none"
    /\ \E a \in BatchArgs :
        /\ batch_arg' = a
        /\ stack' = <<NewFrame(SourcePageId, NewPageId,
                               IF a = <<>> THEN DEFAULT_BATCH_SIZE ELSE a[1])>>
    /\ invoked' = <<[source_id |-> SourcePageId, target_id |-> NewPageId,
                     caller |-> <<>>, at |-> Len(calls)]>>
    /\ UNCHANGED <<rtVars, dj, children, target, next_id, ret, calls>>

\* one iteration of the while loop of _fetch_blocks, the list call answered
ListChildrenOk ==
    /\ stack # <<>>
    /\ Top.pc = "fetch"
    /\ \E k \in PageLens(Len(children[Top.source_id]), Top.start_cursor, Top.batch_size) :
        LET response == ListResponse(Top.source_id, Top.start_cursor, k)
            f        == FetchStep(Top, response)
            g        == IF f.has_more THEN f ELSE AfterFetch(f)
        IN  /\ calls' = Append(calls, Call("list", Top.source_id, Top.source_id,
                                           Top.start_cursor, Top.batch_size, TRUE,
                                           <<>>, {}, response))
            /\ IF g.pc = "raised"
               THEN ReturnFalse
               ELSE stack' = <<g>> \o Tail(stack) /\ UNCHANGED ret
    /\ UNCHANGED <<rtVars, dj, children, batch_arg, target, next_id, invoked>>

\* variant: a failed list call ends the listing and what was read is copied
ListChildrenFail_KeepsPages ==
    /\ stack # <<>>
    /\ Top.pc = "fetch"
    /\ calls' = Append(calls, Call("list", Top.source_id, Top.source_id,
                                   Top.start_cursor, Top.batch_size, FALSE,
                                   <<>>, {}, NoResponse))
    /\ LET g == AfterFetch([Top EXCEPT !.has_more = FALSE])
       IN  IF g.pc = "raised"
           THEN ReturnFalse
           ELSE stack' = <<g>> \o Tail(stack) /\ UNCHANGED ret
    /\ UNCHANGED <<rtVars, dj, children, batch_arg, target, next_id, invoked>>

\* the list call raises: copy_blocks catches it and returns False
ListChildrenFail ==
    /\ stack # <<>>
    /\ Top.pc = "fetch"
    /\ calls' = Append(calls, Call("list", Top.source_id, Top.source_id,
                                   Top.start_cursor, Top.batch_size, FALSE,
                                   <<>>, {}, NoResponse))
    /\ ReturnFalse
    /\ UNCHANGED <<rtVars, dj, children, batch_arg, target, next_id, invoked>>

\* one iteration of the for loop of _append_blocks, the append call answered
\* with the first m of the created blocks (m = the batch's length: all)
AppendChildrenOk ==
    /\ stack # <<>>
    /\ Top.pc = "append"
    /\ LET batch == Batch(Top.new_blocks, Top.i, Top.batch_size)
           made  == CreatedBlocks(batch)
       IN  \E m \in 0..Len(batch) :
            LET response == [results |-> SubSeq(made, 1, m), has_more |-> FALSE,
                             next_cursor |-> NoCursor]
                f        == AppendStep(Top, response)
                g        == IF f.i < Len(f.new_blocks) THEN f
                            ELSE [f EXCEPT !.pc = "recurse"]
            IN  /\ calls' = Append(calls, Call("append", Top.source_id, Top.target_id,
                                               NoCursor, 0, TRUE, batch,
                                               {made[x]["id"] : x \in 1..Len(made)},
                                               response))
                /\ target' = StoreAppend(Top.target_id, batch)
                /\ next_id' = next_id + Len(batch)
                /\ stack' = <<g>> \o Tail(stack)
    /\ UNCHANGED <<rtVars, dj, children, batch_arg, ret, invoked>>

\* variant: the failed batch is skipped and the loop goes on
AppendChildrenFail_Continue ==
    /\ stack # <<>>
    /\ Top.pc = "append"
    /\ calls' = Append(calls, Call("append", Top.source_id, Top.target_id, NoCursor, 0,
                                   FALSE, Batch(Top.new_blocks, Top.i, Top.batch_size),
                                   {}, NoResponse))
    /\ LET f == AppendStep(Top, NoResponse)
       IN  stack' = <<IF f.i < Len(f.new_blocks) THEN f ELSE [f EXCEPT !.pc = "recurse"]>>
                        \o Tail(stack)
    /\ UNCHANGED <<rtVars, dj, children, batch_arg, target, next_id, ret, invoked>>

\* the append call raises: nothing is created, copy_blocks returns False
AppendChildrenFail ==
    /\ stack # <<>>
    /\ Top.pc = "append"
    /\ calls' = Append(calls, Call("append", Top.source_id, Top.target_id, NoCursor, 0,
                                   FALSE, Batch(Top.new_blocks, Top.i, Top.batch_size),
                                   {}, NoResponse))
    /\ ReturnFalse
    /\ UNCHANGED <<rtVars, dj, children, batch_arg, target, next_id, invoked>>

\* the zip loop reaches the next source block with children and calls
\* copy_blocks on it; the value that call returns is not looked at
RecursiveCall ==
    /\ stack # <<>>
    /\ ZipLoopEntered(Top)
    /\ ToRecurse(Top) # {}
    /\ LET n == CHOOSE x \in ToRecurse(Top) : \A y \in ToRecurse(Top) : x <= y
           source_block  == Top.blocks_buffer[ZipIndex(Top, n)]
           created_block == Top.created_blocks[ZipIndex(Top, n)]
       IN  /\ stack' = <<NewFrame(source_block["id"], created_block["id"],
                                  Top.batch_size),
                         [Top EXCEPT !.j = n + 1]>> \o Tail(stack)
           /\ invoked' = Append(invoked, [source_id |-> source_block["id"],
                                          target_id |-> created_block["id"],
                                          caller |-> <<Top.source_id>>,
                                          at |-> Len(calls)])
    /\ UNCHANGED <<rtVars, dj, children, batch_arg, target, next_id, ret, calls>>

\* the zip loop is exhausted: return True (app.py:282)
ReturnTrue ==
    /\ stack # <<>>
    /\ Top.pc = "recurse"
    /\ ToRecurse(Top) = {}
    /\ stack' = Tail(stack)
    /\ ret' = [ret EXCEPT ![Top.source_id] = "true"]
    /\ UNCHANGED <<rtVars, dj, children, batch_arg, target, next_id, calls, invoked>>

Next ==
    \/ CopyBlocksCall
    \/ ListChildrenOk
    \/ ListChildrenFail
    \/ AppendChildrenOk
    \/ AppendChildrenFail
    \/ RecursiveCall
    \/ ReturnTrue

Spec == Init /\ [][Next]_vars

\* copy_blocks(source_id, target_id, batch_size) called from outside with any
\* integer batch_size, zero and negative ones included
CopyBlocksCallAny ==
    /\ stack = <<>>
    /\ ret[SourcePageId] = "none"
    /\ \E b \in (0 - MaxNegBatch)..MaxBatch :
        /\ batch_arg' = <<b>>
        /\ stack' = <<NewFrame(SourcePageId, NewPageId, b)>>
    /\ invoked' = <<[source_id |-> SourcePageId, target_id |-> NewPageId,
                     caller |-> <<>>, at |-> Len(calls)]>>
    /\ UNCHANGED <<rtVars, dj, children, target, next_id, ret, calls>>

NextAnyBatch ==
    \/ CopyBlocksCallAny
    \/ ListChildrenOk
    \/ ListChildrenFail
    \/ AppendChildrenOk
    \/ AppendChildrenFail
    \/ RecursiveCall
    \/ ReturnTrue

SpecAnyBatch == Init /\ [][NextAnyBatch]_vars

\* the interpreter runs the call to completion and the store answers every
\* call (with a response or an exception): a step that can be taken is taken
SpecLive == Init /\ [][Next]_vars /\ WF_vars(Next)

\* ------------------------------------------- _convert_rich_text on its own
InitRich ==
    /\ rich_text \in SeqsUpTo(Spans, MaxSpans)
    /\ converted = Unset
    /\ twice = Unset
    /\ rt_pc = "start"
    /\ children = <<>>
    /\ batch_arg = 0
    /\ target = <<>>
    /\ next_id = 0
    /\ stack = <<>>
    /\ ret = <<>>
    /\ calls = <<>>
    /\ invoked = <<>>
    /\ dj = IdleJournal

\* converted = self._convert_rich_text(rich_text)
ConvertOnce ==
    /\ rt_pc = "start"
    /\ converted' = convert_rich_text(rich_text)
    /\ rt_pc' = "once"
    /\ UNCHANGED <<rich_text, twice, copyVars, dj>>

\* twice = self._convert_rich_text(converted), when the first call returned
ConvertAgain ==
    /\ rt_pc = "once"
    /\ converted.raised = ""
    /\ twice' = convert_rich_text(converted.value)
    /\ rt_pc' = "twice"
    /\ UNCHANGED <<rich_text, converted, copyVars, dj>>

NextRich == ConvertOnce \/ ConvertAgain

SpecRich == InitRich /\ [][NextRich]_vars

\* ------------------------------------------------ duplicate_daily_journal
TITLE == "Title"                 \* NotionProperty.TITLE
DATE  == "Date"                  \* NotionProperty.DATE
DEFAULT_TITLE == "Daily Journal"
Today     == "today"             \* datetime.now().strftime('%Y-%m-%d')
Yesterday == "yesterday"

\* by-field of the store calls duplicate_daily_journal issues itself
Journal == SourcePageId - 1

\* title parts and property sets of the page the store returns
TitleText   == [type |-> "text", text |-> [content |-> "Journal of"]]
TitleDate   == [type |-> "mention",
                mention |-> [type |-> "date", date |-> [start |-> Yesterday]]]
DateProp    == [date |-> [start |-> Yesterday]]
PropertySets ==
    { (TITLE :> [title |-> <<TitleText, TitleDate>>]) @@ (DATE :> DateProp),
      (TITLE :> [title |-> <<TitleText>>]) @@ (DATE :> DateProp),
      (TITLE :> [title |-> <<TitleDate, TitleText>>]) @@ (DATE :> DateProp),
      (TITLE :> [title |-> <<>>]) @@ (DATE :> DateProp),
      (DATE :> DateProp) }

\* what pages.retrieve may return: a page with properties, or one without
PageContents ==
    {[id |-> SourcePageId, properties |-> P] : P \in PropertySets}
        \cup {[id |-> SourcePageId]}

\* the loop body at app.py:311-313
UpdatePart(part) ==
    IF Get(part, "type", None) = "mention" /\ MentionType(part) = "date"
    THEN [part EXCEPT !["mention"]["date"]["start"] = Today]
    ELSE part

\* app.py:303-313: the title becomes DEFAULT_TITLE, date mentions become today
UpdateTitle(properties) ==
    IF TITLE \in DOMAIN properties /\ Len(Get(properties[TITLE], "title", <<>>)) > 0
    THEN LET title == properties[TITLE]["title"]
         IN  IF "text" \notin DOMAIN title[1]
             THEN Raised("KeyError")
             ELSE LET first == [title EXCEPT ![1]["text"]["content"] = DEFAULT_TITLE]
                      parts == IF Len(title) > 1
                               THEN [n \in 1..Len(first) |-> UpdatePart(first[n])]
                               ELSE first
                  IN  Returned([properties EXCEPT ![TITLE]["title"] = parts])
    ELSE Returned(properties)

\* _update_properties_for_today(properties)
update_properties_for_today(properties) ==
    LET t == UpdateTitle(properties)
    IN  IF t.raised # "" THEN t
        ELSE IF DATE \in DOMAIN t.value
             THEN Returned([t.value EXCEPT ![DATE]["date"]["start"] = Today])
             ELSE t

\* get_page_by_date: the first result, None when there is none or the query raised
GetPage(ok, results) == IF ok /\ results # <<>> THEN <<results[1]>> ELSE <<>>

\* except Exception at app.py:356-358: log and return None
OnException(e) == "None"

\* variant: copy_blocks is called whether or not a page was created
CopyAttempted_Always(new_page) == TRUE

\* the left operand of `new_page and self.copy_blocks(..)` at app.py:350
CopyAttempted(new_page) == new_page # <<>>

\* variant: the created page is returned whatever copy_blocks returned
ReturnValue_IgnoresCopy(new_page, copied) ==
    IF new_page # <<>> THEN "page" ELSE "None"

\* app.py:350-354: new_page when it exists and copy_blocks returned True
ReturnValue(new_page, copied) ==
    IF new_page # <<>> /\ copied THEN "page" ELSE "None"

JournalCall(op, block_id, ok, results) ==
    Call(op, Journal, block_id, NoCursor, 1, ok, <<>>, {},
         [results |-> results, has_more |-> FALSE, next_cursor |-> NoCursor])

InitJournal ==
    /\ rich_text = <<>>
    /\ converted = Unset
    /\ twice = Unset
    /\ rt_pc = "idle"
    /\ children \in Trees
    /\ batch_arg = <<>>
    /\ target = <<>>
    /\ next_id = NewPageId
    /\ stack = <<>>
    /\ ret = [v \in DOMAIN children |-> "none"]
    /\ calls = <<>>
    /\ invoked = <<>>
    /\ dj = [IdleJournal EXCEPT !.pc = "query"]

\* source_page = self.get_page_by_date(yesterday), then the test at app.py:333
DuplicateQuery ==
    /\ dj.pc = "query"
    /\ \E ok \in BOOLEAN, results \in {<<>>, <<[id |-> SourcePageId]>>} :
        LET source_page == GetPage(ok, results)
        IN  /\ calls' = Append(calls, JournalCall("query", Journal, ok,
                                                  IF ok THEN results ELSE <<>>))
            /\ dj' = IF source_page = <<>>
                     THEN [dj EXCEPT !.pc = "done", !.result = "None"]
                     ELSE [dj EXCEPT !.pc = "retrieve", !.source_page = source_page]
    /\ UNCHANGED <<rtVars, children, batch_arg, target, next_id, stack, ret, invoked>>

\* page_content = pages.retrieve(source_page['id']) and the property update
DuplicateRetrieve ==
    /\ dj.pc = "retrieve"
    /\ \/ \E page_content \in PageContents :
            LET new_properties ==
                    IF "properties" \in DOMAIN page_content
                    THEN update_properties_for_today(page_content["properties"])
                    ELSE Raised("KeyError")
            IN  /\ calls' = Append(calls, JournalCall("retrieve", dj.source_page[1].id,
                                                      TRUE, <<page_content>>))
                /\ dj' = IF new_properties.raised # ""
                         THEN [dj EXCEPT !.pc = "done",
                                         !.page_content = <<page_content>>,
                                         !.result = OnException(new_properties.raised)]
                         ELSE [dj EXCEPT !.pc = "create",
                                         !.page_content = <<page_content>>,
                                         !.new_properties = <<new_properties.value>>]
       \/ /\ calls' = Append(calls, JournalCall("retrieve", dj.source_page[1].id,
                                                FALSE, <<>>))
          /\ dj' = [dj EXCEPT !.pc = "done", !.result = OnException("APIResponseError")]
    /\ UNCHANGED <<rtVars, children, batch_arg, target, next_id, stack, ret, invoked>>

\* new_page = self.create_page(..), then the call of copy_blocks at app.py:350
\* with the default batch size
DuplicateCreate ==
    /\ dj.pc = "create"
    /\ \E ok \in BOOLEAN :
        LET created  == [id |-> NewPageId, properties |-> dj.new_properties[1]]
            new_page == IF ok THEN <<created>> ELSE <<>>
        IN  /\ calls' = Append(calls, JournalCall("create", Journal, ok,
                                                  IF ok THEN <<created>> ELSE <<>>))
            /\ target' = IF ok
                         THEN (NewPageId :> [type |-> "page", content |-> <<>>,
                                             children |-> <<>>])
                         ELSE target
            /\ IF CopyAttempted(new_page)
               THEN /\ dj' = [dj EXCEPT !.pc = "copy", !.new_page = new_page]
                    /\ stack' = <<NewFrame(dj.page_content[1].id, created.id,
                                           DEFAULT_BATCH_SIZE)>>
                    /\ invoked' = <<[source_id |-> dj.page_content[1].id,
                                     target_id |-> created.id, caller |-> <<>>,
                                     at |-> Len(calls')]>>
               ELSE /\ dj' = [dj EXCEPT !.pc = "done", !.new_page = new_page,
                                        !.result = ReturnValue(new_page, FALSE)]
                    /\ UNCHANGED <<stack, invoked>>
    /\ UNCHANGED <<rtVars, children, batch_arg, next_id, ret>>

\* copy_blocks has returned: app.py:350-354
DuplicateReturn ==
    /\ dj.pc = "copy"
    /\ stack = <<>>
    /\ dj' = [dj EXCEPT !.pc = "done",
                        !.result = ReturnValue(dj.new_page, ret[SourcePageId] = "true")]
    /\ UNCHANGED <<rtVars, copyVars>>

NextJournal ==
    \/ DuplicateQuery
    \/ DuplicateRetrieve
    \/ DuplicateCreate
    \/ ListChildrenOk
    \/ ListChildrenFail
    \/ AppendChildrenOk
    \/ AppendChildrenFail
    \/ RecursiveCall
    \/ ReturnTrue
    \/ DuplicateReturn

SpecJournal == InitJournal /\ [][NextJournal]_vars

\* ===================================================== claims: rich text
Applied == rt_pc \in {"once", "twice"}

\* a mention span with sub-variant link_mention, read off the span itself
LinkMentionSpan(t) ==
    /\ t["type"] = "mention"
    /\ "mention" \in DOMAIN t
    /\ "type" \in DOMAIN t["mention"]
    /\ t["mention"]["type"] = "link_mention"

\* {type: text, text: {content: P, link: {url: U}}, annotations: A, plain_text: P}
TextLink(P, U, A) ==
    [type |-> "text", text |-> [content |-> P, link |-> [url |-> U]],
     annotations |-> A, plain_text |-> P]

C9_OtherSpansUnchanged ==
    (Applied /\ converted.raised = "") =>
        /\ Len(converted.value) = Len(rich_text)
        /\ \A n \in 1..Len(rich_text) :
               ~LinkMentionSpan(rich_text[n]) => converted.value[n] = rich_text[n]

\* a date mention after a link mention came out unchanged, still second
C9_Witness ==
    /\ rt_pc = "once"
    /\ rich_text = <<LinkMention, DateMention>>
    /\ converted.raised = ""
    /\ converted.value[2] = DateMention
    /\ converted.value[1] # LinkMention

\* C10: for a span sequence without link_mention entries, the second
\* application of _convert_rich_text returns what the first returned.
C10_IdempotentWithoutLinkMention ==
    (/\ rt_pc = "twice"
     /\ \A n \in 1..Len(rich_text) : ~LinkMentionSpan(rich_text[n]))
    => /\ converted.raised = ""
       /\ twice = converted

\* two different spans, neither a link mention, converted twice
C10_Witness ==
    /\ rt_pc = "twice"
    /\ Len(rich_text) = 2
    /\ rich_text[1] # rich_text[2]
    /\ \A n \in 1..Len(rich_text) : ~LinkMentionSpan(rich_text[n])
    /\ twice.raised = ""
    /\ twice.value = rich_text

\* ===================================================== claims: copy_blocks
Range(q) == {q[x] : x \in 1..Len(q)}

RECURSIVE Flatten(_)
Flatten(qs) == IF qs = <<>> THEN <<>> ELSE Head(qs) \o Flatten(Tail(qs))

IsListBy(c, s)   == c.op = "list" /\ c.by = s
IsAppendBy(c, s) == c.op = "append" /\ c.by = s
ListCallsBy(s)   == SelectSeq(calls, LAMBDA c : IsListBy(c, s))
AppendCallsBy(s) == SelectSeq(calls, LAMBDA c : IsAppendBy(c, s))

Invoked(s)  == \E n \in 1..Len(invoked) : invoked[n].source_id = s
\* the target the (first) invocation on source s writes to
TargetOf(s) == invoked[CHOOSE n \in 1..Len(invoked) :
                           /\ invoked[n].source_id = s
                           /\ \A m \in 1..(n - 1) : invoked[m].source_id # s].target_id

Finished == stack = <<>> /\ ret[SourcePageId] # "none"

\* no store call failed and every append response holds one created block
\* per submitted block
StoreBehaved ==
    \A n \in 1..Len(calls) :
        /\ calls[n].ok
        /\ calls[n].op = "append" => Len(calls[n].results) = Len(calls[n].sent)

\* what the rewrite makes of the content of source block id, written out
RewrittenContent(id) ==
    CASE id % 3 = 1 ->
           [rich_text |-> <<LabelSpan(id), TextLink("X", "https://x", Bold)>>,
            color |-> "default"]
      [] id % 3 = 2 ->
           [rich_text |-> <<TextLink("Y", "https://y", EmptyDict), LabelSpan(id)>>,
            checked |-> TRUE]
      [] OTHER -> [expression |-> ToString(id)]

SourceType(id) ==
    CASE id % 3 = 1 -> "paragraph" [] id % 3 = 2 -> "to_do" [] OTHER -> "equation"

RECURSIVE Isomorphic(_, _)
Isomorphic(s, t) ==
    /\ t \in DOMAIN target
    /\ Len(target[t].children) = Len(children[s])
    /\ \A n \in 1..Len(children[s]) :
           LET c == children[s][n]
               r == target[t].children[n]
           IN  /\ r \in DOMAIN target
               /\ target[r].type = SourceType(c)
               /\ target[r].content = RewrittenContent(c)
               /\ Isomorphic(c, r)

\* C1: when copy_blocks has returned, no store call failed and every append
\* response held one created block per submitted block, the target tree is
\* isomorphic to the source tree: at every level as many children, the Nth
\* with the type and the rewritten content of the source's Nth, for every
\* batch_size >= 1 (omitted included).
C1_TargetIsomorphic ==
    (Finished /\ StoreBehaved) => Isomorphic(SourcePageId, NewPageId)

\* three levels copied in batches of one, two blocks under the page
C1_Witness ==
    /\ Finished
    /\ StoreBehaved
    /\ batch_arg = <<1>>
    /\ Len(children[SourcePageId]) = 2
    /\ \E c \in Range(children[SourcePageId]) :
           \E d \in Range(children[c]) : children[d] # <<>>
    /\ Cardinality(DOMAIN target) = Cardinality(DOMAIN children)

\* C2 as stated: copy_blocks returns True only if none of its own store calls
\* failed and every recursive copy_blocks call it made returned True; so a
\* True at the top means no store call failed at any depth.
C2_TrueOnlyIfAllSucceeded ==
    /\ \A s \in DOMAIN ret :
           ret[s] = "true" =>
               /\ \A n \in 1..Len(calls) : calls[n].by = s => calls[n].ok
               /\ \A c \in Range(children[s]) : Invoked(c) => ret[c] = "true"
    /\ ret[SourcePageId] = "true" => \A n \in 1..Len(calls) : calls[n].ok

\* C3: after a failed append call, no later append call goes to the same
\* parent, the invocation that issued it has returned False, and every block
\* created by the earlier batches of that invocation is still a child of the
\* target in the store; the only store operations ever issued are list and
\* append.
C3_FailedBatchAborts ==
    /\ \A n \in 1..Len(calls) : calls[n].op \in {"list", "append"}
    /\ \A n \in 1..Len(calls) :
           (calls[n].op = "append" /\ ~calls[n].ok) =>
               /\ \A m \in (n + 1)..Len(calls) :
                      ~(calls[m].op = "append"
                        /\ (calls[m].block_id = calls[n].block_id
                            \/ calls[m].by = calls[n].by))
               /\ ret[calls[n].by] = "false"
               /\ \A m \in 1..(n - 1) :
                      (calls[m].op = "append" /\ calls[m].block_id = calls[n].block_id) =>
                          /\ calls[m].ok
                          /\ calls[m].made \subseteq DOMAIN target
                          /\ calls[m].made \subseteq Range(target[calls[n].block_id].children)

\* batch 2 of 3 failed: one block was created under the page, one append
\* call failed, and no third append call was issued
C3_Witness ==
    /\ Finished
    /\ batch_arg = <<1>>
    /\ Len(children[SourcePageId]) = 3
    /\ Len(AppendCallsBy(SourcePageId)) = 2
    /\ AppendCallsBy(SourcePageId)[1].ok
    /\ ~AppendCallsBy(SourcePageId)[2].ok
    /\ Len(target[NewPageId].children) = 1
    /\ ret[SourcePageId] = "false"

\* C4: an invocation whose list calls all returned and listed no child has
\* issued no append call and made no recursive call, and when it has
\* returned it returned True.
C4_EmptySource ==
    \A s \in DOMAIN ret :
        (/\ ListCallsBy(s) # <<>>
         /\ \A n \in 1..Len(ListCallsBy(s)) :
                ListCallsBy(s)[n].ok /\ ListCallsBy(s)[n].results = <<>>
         /\ ~ListCallsBy(s)[Len(ListCallsBy(s))].has_more)
        => /\ AppendCallsBy(s) = <<>>
           /\ \A n \in 1..Len(calls) : calls[n].op = "append" => calls[n].block_id # TargetOf(s)
           /\ \A n \in 1..Len(invoked) : invoked[n].caller # <<s>>
           /\ ret[s] # "false"
           /\ (stack = <<>> => ret[s] = "true")

\* the copy of an empty page has returned True after one list call
C4_Witness ==
    /\ children[SourcePageId] = <<>>
    /\ Len(calls) = 1
    /\ calls[1].op = "list"
    /\ calls[1].ok
    /\ ret[SourcePageId] = "true"
    /\ stack = <<>>

\* the copy_blocks invocations on source c, and the first list calls on it
InvocationsOn(c) == {n \in 1..Len(invoked) : invoked[n].source_id = c}
FetchesOf(c) ==
    {n \in 1..Len(calls) :
        calls[n].op = "list" /\ calls[n].block_id = c /\ calls[n].start_cursor = NoCursor}

\* for the invocation on s, writing to t: a child without children is never
\* the parent of a list call nor its replica the parent of an append call; a
\* child with children is fetched by exactly one recursive invocation, made by
\* s, on the child's own id and writing to the child's replica
TriggersRecursion(s, t) ==
    \A n \in 1..Len(children[s]) :
        LET c       == children[s][n]
            replica == target[t].children[n]
        IN  /\ n <= Len(target[t].children)
            /\ IF children[c] = <<>>
               THEN \A m \in 1..Len(calls) : calls[m].block_id \notin {c, replica}
               ELSE /\ Cardinality(InvocationsOn(c)) = 1
                    /\ Cardinality(FetchesOf(c)) = 1
                    /\ \A m \in InvocationsOn(c) :
                           /\ invoked[m].caller = <<s>>
                           /\ invoked[m].target_id = replica

\* C5 as stated: for every invocation that has returned True (its fetch and
\* its writes succeeded), each fetched child with has_children false causes no
\* list or append call on its id or its replica's, and each fetched child with
\* has_children true causes exactly one further fetch, on its own id, writing
\* to the created block paired with it.
C5_AsStated ==
    \A s \in DOMAIN ret :
        ret[s] = "true" => TriggersRecursion(s, TargetOf(s))

\* C5 amended: the same, for the invocations all of whose append responses
\* held one created block per submitted block.
C5_RecursionTrigger ==
    \A s \in DOMAIN ret :
        (/\ ret[s] = "true"
         /\ \A n \in 1..Len(calls) :
                IsAppendBy(calls[n], s) => Len(calls[n].results) = Len(calls[n].sent))
        => TriggersRecursion(s, TargetOf(s))

\* the page has a childless block and one with children; the children of the
\* latter were appended to its replica under the new page
C5_Witness ==
    /\ Finished
    /\ ret[SourcePageId] = "true"
    /\ \A n \in 1..Len(calls) :
           IsAppendBy(calls[n], SourcePageId) => Len(calls[n].results) = Len(calls[n].sent)
    /\ \E c, d \in Range(children[SourcePageId]) :
           /\ children[c] = <<>>
           /\ children[d] # <<>>
           /\ ret[d] = "true"
           /\ \E n \in 1..Len(calls) :
                  /\ IsAppendBy(calls[n], d)
                  /\ calls[n].block_id \in Range(target[NewPageId].children)

\* C6: the buffer of _fetch_blocks is at every moment the concatenation, in
\* call order, of the pages the store returned for that parent; when the
\* fetch has returned, every page was read and the buffer lists the parent's
\* children, each once, in the store's order; a listing without children
\* gives the empty sequence and no failure.
C6_FetchConcatenatesPages ==
    /\ \A k \in 1..Len(stack) :
           LET f     == stack[k]
               pages == ListCallsBy(f.source_id)
           IN  /\ f.blocks_buffer = Flatten([x \in 1..Len(pages) |-> pages[x].results])
               /\ f.pc # "fetch" =>
                      /\ pages # <<>>
                      /\ \A x \in 1..Len(pages) : pages[x].ok
                      /\ ~pages[Len(pages)].has_more
                      /\ Len(f.blocks_buffer) = Len(children[f.source_id])
                      /\ \A x \in 1..Len(f.blocks_buffer) :
                             f.blocks_buffer[x]["id"] = children[f.source_id][x]
    /\ \A s \in DOMAIN ret :
           (/\ ListCallsBy(s) # <<>>
            /\ \A x \in 1..Len(ListCallsBy(s)) :
                   ListCallsBy(s)[x].ok /\ ListCallsBy(s)[x].results = <<>>)
           => ret[s] # "false"

\* two items with has_more true, then one with has_more false: three items
C6_Witness ==
    /\ Len(stack) = 1
    /\ Top.pc = "append"
    /\ Len(ListCallsBy(SourcePageId)) = 2
    /\ Len(ListCallsBy(SourcePageId)[1].results) = 2
    /\ ListCallsBy(SourcePageId)[1].has_more
    /\ Len(ListCallsBy(SourcePageId)[2].results) = 1
    /\ ~ListCallsBy(SourcePageId)[2].has_more
    /\ Len(Top.blocks_buffer) = 3

\* the batch size copy_blocks runs with
RunBatchSize == IF batch_arg = <<>> THEN 100 ELSE batch_arg[1]

\* C7: every list call has page_size equal to the batch size (100 when the
\* argument is omitted); the first list call for a parent has no cursor and
\* each later one follows a response of the same parent that returned with
\* has_more true and carries that response's next_cursor; and while the last
\* response for a parent says has_more, that parent's fetch is still running.
C7_CursorProtocol ==
    /\ \A n \in 1..Len(calls) :
           calls[n].op = "list" =>
               LET earlier == {m \in 1..(n - 1) :
                                  calls[m].op = "list" /\ calls[m].block_id = calls[n].block_id}
               IN  /\ calls[n].page_size = RunBatchSize
                   /\ IF earlier = {}
                      THEN calls[n].start_cursor = NoCursor
                      ELSE LET m == CHOOSE x \in earlier : \A y \in earlier : y <= x
                           IN  /\ calls[m].ok
                               /\ calls[m].has_more
                               /\ calls[n].start_cursor = calls[m].next_cursor
                               /\ calls[n].start_cursor # NoCursor
    /\ \A s \in DOMAIN ret :
           (/\ ListCallsBy(s) # <<>>
            /\ ListCallsBy(s)[Len(ListCallsBy(s))].ok
            /\ ListCallsBy(s)[Len(ListCallsBy(s))].has_more)
           => /\ stack # <<>>
              /\ Top.source_id = s
              /\ Top.pc = "fetch"

\* three pages of one item each were read for the page, the second and third
\* call carrying the cursor of the response before
C7_Witness ==
    /\ Finished
    /\ batch_arg = <<1>>
    /\ Len(ListCallsBy(SourcePageId)) = 3
    /\ ListCallsBy(SourcePageId)[1].start_cursor = NoCursor
    /\ ListCallsBy(SourcePageId)[2].start_cursor = ListCallsBy(SourcePageId)[1].next_cursor
    /\ ListCallsBy(SourcePageId)[3].start_cursor = ListCallsBy(SourcePageId)[2].next_cursor
    /\ ListCallsBy(SourcePageId)[3].start_cursor # ListCallsBy(SourcePageId)[2].start_cursor
    /\ ~ListCallsBy(SourcePageId)[3].has_more

\* ===================================================== claims, continued
\* C11 as stated: _convert_rich_text returns a sequence for every sequence
\* of spans, spans without a top-level href, plain_text, annotations or
\* mention payload included; it never raises.
C11_Total ==
    /\ Applied => converted.raised = ""
    /\ rt_pc = "twice" => twice.raised = ""

\* the write payload expected for source block c, written out
ExpectedPayload(c) ==
    [object |-> "block", type |-> SourceType(c)] @@ (SourceType(c) :> RewrittenContent(c))

ExpectedPayloads(s) == [n \in 1..Len(children[s]) |-> ExpectedPayload(children[s][n])]

IsPrefix(p, q) == Len(p) <= Len(q) /\ SubSeq(q, 1, Len(p)) = p

\* _append_blocks of the invocation on s has returned
AppendReturned(s) ==
    \/ ret[s] = "true"
    \/ \E k \in 1..Len(stack) : stack[k].source_id = s /\ stack[k].pc = "recurse"

\* C12: every append call of an invocation goes to that invocation's target
\* and carries between 1 and batch_size payloads; the slices, in call order,
\* concatenate to a prefix of the payload sequence, and when _append_blocks
\* has returned they concatenate to all n payloads, in ceil(n / batch_size)
\* calls.
C12_Batches ==
    \A s \in DOMAIN ret :
        LET sent == [x \in 1..Len(AppendCallsBy(s)) |-> AppendCallsBy(s)[x].sent]
            n    == Len(children[s])
        IN  /\ \A x \in 1..Len(AppendCallsBy(s)) :
                   /\ AppendCallsBy(s)[x].block_id = TargetOf(s)
                   /\ Len(sent[x]) >= 1
                   /\ Len(sent[x]) <= RunBatchSize
            /\ IsPrefix(Flatten(sent), ExpectedPayloads(s))
            /\ AppendReturned(s) =>
                   /\ Flatten(sent) = ExpectedPayloads(s)
                   /\ Len(AppendCallsBy(s)) = (n + RunBatchSize - 1) \div RunBatchSize

\* three payloads went to the new page in two calls, of two and of one
C12_Witness ==
    /\ Finished
    /\ batch_arg = <<2>>
    /\ Len(children[SourcePageId]) = 3
    /\ Len(AppendCallsBy(SourcePageId)) = 2
    /\ Len(AppendCallsBy(SourcePageId)[1].sent) = 2
    /\ Len(AppendCallsBy(SourcePageId)[2].sent) = 1
    /\ ret[SourcePageId] = "true"

\* C13: each payload built by _prepare_blocks_for_copy has the type tag of the
\* source block at its position and, under that tag, a content with the
\* source content's keys and values except that rich_text, when present, is
\* its rewrite; it has neither id nor has_children; a content without
\* rich_text is the source content.
C13_PayloadShape ==
    \A k \in 1..Len(stack) :
        LET f == stack[k]
        IN  f.pc \in {"append", "recurse"} =>
                /\ Len(f.new_blocks) = Len(f.blocks_buffer)
                /\ \A n \in 1..Len(f.new_blocks) :
                       LET b      == f.blocks_buffer[n]
                           p      == f.new_blocks[n]
                           t      == b["type"]
                       IN  /\ DOMAIN p = {"object", "type", t}
                           /\ "id" \notin DOMAIN p
                           /\ "has_children" \notin DOMAIN p
                           /\ p["type"] = t
                           /\ DOMAIN p[t] = DOMAIN b[t]
                           /\ \A key \in DOMAIN b[t] \ {"rich_text"} : p[t][key] = b[t][key]
                           /\ p[t] = RewrittenContent(b["id"])
                           /\ "rich_text" \notin DOMAIN b[t] => p[t] = b[t]

\* payloads were built for a paragraph with a link mention and for an
\* equation, which has no rich_text
C13_Witness ==
    /\ stack # <<>>
    /\ Top.pc = "append"
    /\ \E n, m \in 1..Len(Top.new_blocks) :
           /\ Top.new_blocks[n]["type"] = "paragraph"
           /\ Top.new_blocks[n]["paragraph"]["rich_text"] # Top.blocks_buffer[n]["paragraph"]["rich_text"]
           /\ Top.new_blocks[m]["type"] = "equation"
           /\ Top.new_blocks[m]["equation"] = Top.blocks_buffer[m]["equation"]

\* ------------------------------------------ claims: duplicate_daily_journal
JournalOps == [n \in 1..Len(calls) |-> calls[n].op]

\* the query returned yesterday's page
QueryFound ==
    \E n \in 1..Len(calls) :
        calls[n].op = "query" /\ calls[n].ok /\ calls[n].results # <<>>

\* the store created the new page
PageCreated == \E n \in 1..Len(calls) : calls[n].op = "create" /\ calls[n].ok

C14_WitnessCopyFailed ==
    /\ dj.result = "None"
    /\ PageCreated
    /\ ret[SourcePageId] = "false"

\* C15: the store calls of one run are, in order, a query, then a retrieve,
\* then a create, then list and append calls; a retrieve is issued only after
\* a query that found a page, a create only after a retrieve that returned,
\* a list or append only after a create that returned a page.
C15_CallOrder ==
    \A n \in 1..Len(calls) :
        /\ calls[n].op = "query" <=> n = 1
        /\ calls[n].op = "retrieve" =>
               n = 2 /\ calls[1].ok /\ calls[1].results # <<>>
        /\ calls[n].op = "create" =>
               n = 3 /\ calls[2].op = "retrieve" /\ calls[2].ok
        /\ calls[n].op \in {"list", "append"} =>
               n > 3 /\ calls[3].op = "create" /\ calls[3].ok

\* all five kinds of call were issued
C15_Witness ==
    /\ Len(calls) >= 5
    /\ calls[4].op = "list"
    /\ \E n \in 5..Len(calls) : calls[n].op = "append"
    /\ dj.pc = "done"

\* --------------------------------------------- claims: order of store calls
\* the invocations made by the invocation on s, as positions of the log
CallsMadeBy(s) == {k \in 1..Len(invoked) : invoked[k].caller = <<s>>}

\* C16: within the invocation on s every list call comes before every append
\* call, and every store call of s comes before the first recursive call s
\* makes; while s is fetching it has appended nothing, and while it is
\* fetching or writing it has made no recursive call.
C16_PhaseOrder ==
    /\ \A s \in DOMAIN ret :
        /\ \A a, b \in 1..Len(calls) :
               IsListBy(calls[a], s) /\ IsAppendBy(calls[b], s) => a < b
        /\ \A a \in 1..Len(calls), k \in CallsMadeBy(s) :
               calls[a].by = s => a <= invoked[k].at
    /\ \A k \in 1..Len(stack) :
        /\ stack[k].pc = "fetch" => AppendCallsBy(stack[k].source_id) = <<>>
        /\ stack[k].pc \in {"fetch", "append"} => CallsMadeBy(stack[k].source_id) = {}

\* an invocation issued two list calls, then two append calls, then recursed
C16_Witness ==
    /\ Len(ListCallsBy(SourcePageId)) >= 2
    /\ Len(AppendCallsBy(SourcePageId)) >= 2
    /\ CallsMadeBy(SourcePageId) # {}
    /\ Finished

\* c and the blocks below it in the source tree
RECURSIVE Subtree(_)
Subtree(c) == {c} \cup UNION {Subtree(d) : d \in Range(children[c])}

\* C17: for children at positions i < j of one parent, both with children,
\* every store call issued while copying the subtree of the i-th comes before
\* every store call issued while copying the subtree of the j-th; only the
\* innermost invocation is not suspended in a recursive call, so no two store
\* calls are outstanding together.
C17_DepthFirst ==
    /\ \A s \in DOMAIN children :
        \A i, j \in 1..Len(children[s]) :
            LET ci == children[s][i]
                cj == children[s][j]
            IN  i < j /\ children[ci] # <<>> /\ children[cj] # <<>> =>
                    \A a, b \in 1..Len(calls) :
                        calls[a].by \in Subtree(ci) /\ calls[b].by \in Subtree(cj)
                            => a < b
    /\ \A k \in 2..Len(stack) :
        /\ stack[k].pc = "recurse"
        /\ stack[k - 1].source_id \in Range(children[stack[k].source_id])

\* two siblings with children were both copied, the first one first
C17_Witness ==
    /\ Finished
    /\ \E i, j \in 1..Len(children[SourcePageId]) :
        /\ i < j
        /\ ListCallsBy(children[SourcePageId][i]) # <<>>
        /\ ListCallsBy(children[SourcePageId][j]) # <<>>
        /\ AppendCallsBy(children[SourcePageId][i]) # <<>>

\* a call of the invocation on s raised, and s then issued nothing more
OwnFailureAbsorbing(s) ==
    \A a \in 1..Len(calls) :
        calls[a].by = s /\ ~calls[a].ok =>
            /\ \A b \in (a + 1)..Len(calls) : calls[b].by # s
            /\ \A k \in CallsMadeBy(s) : invoked[k].at < a

\* a recursive call of s returned False, and s then made no further one
ChildFailureAbsorbing(s) ==
    \A k \in CallsMadeBy(s) :
        ret[invoked[k].source_id] = "false" =>
            \A k2 \in CallsMadeBy(s) : k2 <= k

\* no list or append call that raised is issued a second time
NoRetry ==
    \A a, b \in 1..Len(calls) :
        a < b /\ ~calls[a].ok =>
            ~(/\ calls[b].op = calls[a].op
              /\ calls[b].block_id = calls[a].block_id
              /\ calls[b].start_cursor = calls[a].start_cursor
              /\ calls[b].sent = calls[a].sent)

\* C18 as stated: once a list call, an append call or the recursive copy of a
\* child has failed in an invocation, that invocation issues no further store
\* call and recurses into no later child; no failed call is issued again.
C18_FailedAbsorbing ==
    /\ NoRetry
    /\ \A s \in DOMAIN ret : OwnFailureAbsorbing(s) /\ ChildFailureAbsorbing(s)

\* the part of C18 the code keeps: its own failures end an invocation
C18_OwnFailures ==
    NoRetry /\ \A s \in DOMAIN ret : OwnFailureAbsorbing(s)

\* position of child c among the children of s
PositionIn(s, c) == CHOOSE n \in 1..Len(children[s]) : children[s][n] = c

\* C19 as stated: whatever the append responses hold, every recursive call of
\* the invocation on s is made on a source child of s together with the block
\* the store created from that child, and that block was returned by an
\* append call of s.
C19_PairsAligned ==
    \A s \in DOMAIN ret :
        \A k \in CallsMadeBy(s) :
            LET c == invoked[k].source_id
            IN  /\ c \in Range(children[s])
                /\ PositionIn(s, c) <= Len(target[TargetOf(s)].children)
                /\ invoked[k].target_id = target[TargetOf(s)].children[PositionIn(s, c)]
                /\ \E a \in 1..Len(AppendCallsBy(s)) :
                       invoked[k].target_id \in
                           {AppendCallsBy(s)[a].results[x]["id"] :
                                x \in 1..Len(AppendCallsBy(s)[a].results)}

\* the part of C19 the code keeps: a recursive call is made only on a source
\* child and a block that an append response of the same invocation returned
C19_NoIndexError ==
    \A s \in DOMAIN ret :
        \A k \in CallsMadeBy(s) :
            /\ invoked[k].source_id \in Range(children[s])
            /\ \E a \in 1..Len(AppendCallsBy(s)) :
                   invoked[k].target_id \in
                       {AppendCallsBy(s)[a].results[x]["id"] :
                            x \in 1..Len(AppendCallsBy(s)[a].results)}

\* C20: in every invocation the buffered source blocks are, at every moment,
\* the blocks as the list calls returned them and as the store holds them;
\* building the payloads changed none of them.
C20_SourceBlocksUnchanged ==
    \A k \in 1..Len(stack) :
        LET f     == stack[k]
            pages == ListCallsBy(f.source_id)
            got   == Flatten([x \in 1..Len(pages) |-> pages[x].results])
        IN  /\ Len(f.blocks_buffer) = Len(got)
            /\ \A n \in 1..Len(got) :
                   /\ f.blocks_buffer[n] = got[n]
                   /\ f.blocks_buffer[n] = SourceBlock(got[n]["id"])

\* payloads with a rewritten rich_text were built and sent, and the source
\* block still holds its link mention
C20_Witness ==
    /\ stack # <<>>
    /\ Top.pc = "recurse"
    /\ \E n \in 1..Len(Top.blocks_buffer) :
        /\ Top.blocks_buffer[n]["type"] = "paragraph"
        /\ \E x \in 1..Len(Top.blocks_buffer[n]["paragraph"]["rich_text"]) :
               LinkMentionSpan(Top.blocks_buffer[n]["paragraph"]["rich_text"][x])
        /\ Top.new_blocks[n]["paragraph"]["rich_text"]
               # Top.blocks_buffer[n]["paragraph"]["rich_text"]

\* ------------------------------------------------------ claims: termination
\* C21: on every finite source tree, with batch_size >= 1 and a store whose
\* listings end after finitely many pages, copy_blocks eventually returns
\* True or False, whichever store calls fail.
C21_Terminates ==
    <>(stack = <<>> /\ ret[SourcePageId] \in {"true", "false"})

\* copy_blocks returned after a run three invocations deep in which a store
\* call raised
C21_Witness ==
    /\ Finished
    /\ Len(invoked) >= 3
    /\ \E n \in 1..Len(calls) : ~calls[n].ok
    /\ \E n \in 1..Len(invoked) :
           invoked[n].caller # <<>> /\ invoked[n].caller # <<SourcePageId>>

\* C22: when a list call of the invocation on s has raised, on the first
\* page or on a later one, that invocation has issued no append call, its
\* target has received no block, and once it is off the stack it has
\* returned False.
C22_ListFailureWritesNothing ==
    \A s \in DOMAIN ret :
        (\E x \in 1..Len(ListCallsBy(s)) : ~ListCallsBy(s)[x].ok) =>
            /\ AppendCallsBy(s) = <<>>
            /\ target[TargetOf(s)].children = <<>>
            /\ ret[s] = "false"
            /\ \A k \in 1..Len(stack) : stack[k].source_id # s

\* the second list call of an invocation raised after a first page was read
C22_Witness ==
    \E s \in DOMAIN ret :
        /\ Len(ListCallsBy(s)) >= 2
        /\ ListCallsBy(s)[1].ok
        /\ ListCallsBy(s)[1].results # <<>>
        /\ ~ListCallsBy(s)[Len(ListCallsBy(s))].ok
        /\ ret[s] = "false"

\* ------------------------------------------------- claims: any batch_size
\* the ids of the blocks the list calls of the invocation on s returned
FetchedBy(s) ==
    UNION {{b["id"] : b \in Range(ListCallsBy(s)[x].results)} :
               x \in 1..Len(ListCallsBy(s))}

\* the append calls of the invocation on s that carried the payload of c
SubmissionsOf(s, c) ==
    {a \in 1..Len(AppendCallsBy(s)) : ExpectedPayload(c) \in Range(AppendCallsBy(s)[a].sent)}

\* C23 as stated: for every integer batch_size, zero and negative included,
\* when the invocation on s has returned True every block fetched for s was
\* submitted to the target in exactly one append call.
C23_AllSubmittedOnce ==
    \A s \in DOMAIN ret :
        ret[s] = "true" =>
            \A c \in FetchedBy(s) : Cardinality(SubmissionsOf(s, c)) = 1

\* the part of C23 the code keeps: the same with batch_size >= 1, and with
\* batch_size = 0 copy_blocks never returns True
C23_FromOneUp ==
    /\ batch_arg # <<>> /\ batch_arg[1] >= 1 =>
           \A s \in DOMAIN ret :
               ret[s] = "true" =>
                   \A c \in FetchedBy(s) : Cardinality(SubmissionsOf(s, c)) = 1
    /\ batch_arg = <<0>> => \A s \in DOMAIN ret : ret[s] # "true"

====
